---- MODULE Spec2Model ----
(***************************************************************************)
(* Nearby-station search of the EV-APP backend.                            *)
(*                                                                         *)
(*   app/services/station_service.py   StationService.get_nearby_stations  *)
(*                                     StationService._calculate_distance  *)
(*   app/api/endpoints/stations.py     GET /api/stations/nearby            *)
(*   app/schemas/station.py            StationResponse                     *)
(*   app/models/station.py             Station                             *)
(*                                                                         *)
(* Floating point is modelled as fixed point: a real x is the integer      *)
(* round(x * Scale), every operation rounds its result to the nearest      *)
(* representable value, as IEEE arithmetic does.  Angles in radians are     *)
(* fixed point too.  The rounding is what makes the haversine term `a`     *)
(* leave [0, 1] for some antipodal pairs, in the model as in the doubles.  *)
(***************************************************************************)
EXTENDS Integers, Sequences, FiniteSets, TLC

----------------------------------------------------------------------------
(* Bounds and input domains *)

MaxStations == 2

\* An optional value (a nullable column, an Optional[float] argument) is a
\* sequence of length at most one: <<>> is absent, <<v>> is the value v.
NULL == << >>
None == << >>
Some(v) == <<v>>
Val(o) == o[1]
Optional(S) == {None} \cup {Some(v) : v \in S}

StationLats   == {-12, 12}
StationLons   == {0}
StationPowers == {150}

OriginLats == {0, 12}
OriginLngs == {0, 180}
Radii      == {-5, 0, 1500, 20000}
MinPowers  == Optional({-5, 0, 200})

----------------------------------------------------------------------------
(* Fixed-point arithmetic standing for Python's float and math module *)

Scale == 10000
Pi    == 31416

\* In the recursive definitions below an intermediate value is bound by a
\* quantifier over a one-element set, { body : v \in {e} }, so that it is
\* computed once and not again at every use further down the recursion.

RoundDiv(a, b) ==
    IF a >= 0 THEN (2 * a + b) \div (2 * b)
              ELSE -((2 * (-a) + b) \div (2 * b))

Mul(a, b) == RoundDiv(a * b, Scale)

FromInt(n) == n * Scale

Radians(deg) == RoundDiv(deg * Pi, 180)

Half(x) == RoundDiv(x, 2)

\* The Taylor series of the sine, term by term until the terms vanish.
RECURSIVE SinSeries(_, _, _, _)
SinSeries(x2, term, sum, k) ==
    IF term = 0 THEN sum
    ELSE CHOOSE r \in
            {SinSeries(x2, next, sum + next, k + 1) :
                next \in {-RoundDiv(term * x2, Scale * (2 * k) * (2 * k + 1))}} :
            TRUE

SinFirstQuadrant(x) ==
    CHOOSE r \in {SinSeries(Mul(v, v), v, v, 1) : v \in {x}} : TRUE

SinHalfTurn(x) == IF x > Pi \div 2 THEN SinFirstQuadrant(Pi - x)
                                   ELSE SinFirstQuadrant(x)

SinPositive(x) ==
    IF x % (2 * Pi) > Pi THEN -SinHalfTurn((x % (2 * Pi)) - Pi)
                         ELSE SinHalfTurn(x % (2 * Pi))

Sin(x) == IF x < 0 THEN -SinPositive(-x) ELSE SinPositive(x)

Cos(x) == Sin(x + Pi \div 2)

\* The largest r in lo..hi with r * r <= n.
RECURSIVE SqrtSearch(_, _, _)
SqrtSearch(n, lo, hi) ==
    IF lo >= hi THEN lo
    ELSE CHOOSE r \in
            {IF mid * mid <= n THEN SqrtSearch(n, mid, h)
                               ELSE SqrtSearch(n, l, mid - 1) :
                mid \in {(lo + hi + 1) \div 2}, l \in {lo}, h \in {hi}} :
            TRUE

\* math.sqrt raises ValueError (math domain error) on a negative argument.
SqrtDefined(x) == x >= 0

Sqrt(x) ==
    CHOOSE root \in
       {IF n - r * r > r THEN r + 1 ELSE r :
           <<n, r>> \in {<<x * Scale, SqrtSearch(x * Scale, 0, 2 * Scale)>>}} :
       TRUE

\* The largest angle t in lo..hi with tan(t) <= y / x.
RECURSIVE AtanSearch(_, _, _, _)
AtanSearch(y, x, lo, hi) ==
    IF lo >= hi THEN lo
    ELSE CHOOSE r \in
            {IF x * Sin(mid) <= y * Cos(mid) THEN AtanSearch(y, x, mid, h)
                                             ELSE AtanSearch(y, x, l, mid - 1) :
                mid \in {(lo + hi + 1) \div 2}, l \in {lo}, h \in {hi}} :
            TRUE

\* math.atan2 for y >= 0 and x >= 0, the only arguments the distance gives it.
Atan2(y, x) ==
    CHOOSE r \in {AtanSearch(yv, xv, 0, Pi \div 2) : yv \in {y}, xv \in {x}} :
       TRUE

----------------------------------------------------------------------------
(* StationService._calculate_distance *)

R == 6371

\* Mutant: the latitudes are added instead of subtracted.
HaversineALatSum(lat1, lon1, lat2, lon2) ==
    LET dlat == Radians(lat2 + lat1)
        dlon == Radians(lon2 - lon1)
    IN  Mul(Sin(Half(dlat)), Sin(Half(dlat)))
        + Mul(Mul(Mul(Cos(Radians(lat1)), Cos(Radians(lat2))),
                  Sin(Half(dlon))),
              Sin(Half(dlon)))

\* Mutant: the cosine of the first latitude is taken twice.
HaversineAFirstLatTwice(lat1, lon1, lat2, lon2) ==
    LET dlat == Radians(lat2 - lat1)
        dlon == Radians(lon2 - lon1)
    IN  Mul(Sin(Half(dlat)), Sin(Half(dlat)))
        + Mul(Mul(Mul(Cos(Radians(lat1)), Cos(Radians(lat1))),
                  Sin(Half(dlon))),
              Sin(Half(dlon)))

HaversineA(lat1, lon1, lat2, lon2) ==
    LET dlat == Radians(lat2 - lat1)
        dlon == Radians(lon2 - lon1)
    IN  Mul(Sin(Half(dlat)), Sin(Half(dlat)))
        + Mul(Mul(Mul(Cos(Radians(lat1)), Cos(Radians(lat2))),
                  Sin(Half(dlon))),
              Sin(Half(dlon)))

Haversine(lat1, lon1, lat2, lon2) ==
    CHOOSE d \in
       {IF SqrtDefined(a) /\ SqrtDefined(FromInt(1) - a)
        THEN [raised |-> FALSE,
              value  |-> RoundDiv(R * (2 * Atan2(Sqrt(a), Sqrt(FromInt(1) - a))),
                                  Scale)]
        ELSE [raised |-> TRUE, value |-> 0] :
           a \in {HaversineA(lat1, lon1, lat2, lon2)}} :
       TRUE

\* _calculate_distance over the coordinates of the input domains.
DistanceTable ==
    {<<q, Haversine(q[1], q[2], q[3], q[4])>> :
        q \in OriginLats \X OriginLngs \X StationLats \X StationLons}

----------------------------------------------------------------------------
(* app/models/station.py: the stations table and its rows *)

StationColumns ==
    [lat            : Optional(StationLats),
     lon            : Optional(StationLons),
     power_class_kw : Optional(StationPowers)]

Tables == UNION {[1..n -> StationColumns] : n \in 0..MaxStations}

\* The ORM object of row i: the persisted columns and the primary key.
Station(table, i) ==
    [id             |-> i,
     lat            |-> table[i].lat,
     lon            |-> table[i].lon,
     power_class_kw |-> table[i].power_class_kw]

VARIABLES
    haversine,  \* what _calculate_distance returns, a fixed table of the
                \* floating-point results, filled once from DistanceTable
    stations,   \* the stations table
    outcome,    \* "idle", or how the running request's search ended
    request,    \* the query parameters of the request being served
    fetched,    \* what query.all() returned to the search
    applied,    \* the coordinates handed to _calculate_distance, in order
    result,     \* the list get_nearby_stations returned
    escaped,    \* whether an exception left get_nearby_stations
    status,     \* the HTTP status of the response
    response,   \* the body of the HTTP response
    coordinates,    \* the two points given to _calculate_distance
    forward,        \* _calculate_distance(lat1, lon1, lat2, lon2), once called
    backward,       \* _calculate_distance(lat2, lon2, lat1, lon1), once called
    heap,           \* the distance attribute of each loaded Station object
    searches,       \* the invocations of get_nearby_stations, step by step
    file,           \* the CSV file given to append_to_stations, if it exists
    storedIds,      \* the station_id values of the committed stations rows
    tailStored,     \* how many of the file's further rows are committed
    history,        \* what each run of append_to_stations did
    users,          \* the emails of the rows of the users table, in order
    registrations,  \* the POST /register requests, step by step
    catalogue,      \* the stations table as GET /stats reads it
    stats,          \* the answer of GET /stats, once given
    csvRows,        \* the number of rows of the CSV file to ingest, if found
    target,         \* the table ingest_csv writes, if it exists
    ingest          \* the run of ingest_csv

\* The state of a direct call of the distance function.
distanceVars == <<coordinates, forward, backward>>

\* The state outside the search and its endpoint.
\* The state of invocations that share the process and its sessions.
sessionVars == <<heap, searches>>

\* The state of the append script and of the station_id column it fills.
appendVars == <<file, storedIds, tailStored, history>>

\* The state of POST /register and the users table.
registerVars == <<users, registrations>>

\* The state of GET /stats.
statsVars == <<catalogue, stats>>

\* The state of ingest_csv.
ingestVars == <<csvRows, target, ingest>>

furtherVars == <<registerVars, statsVars, ingestVars>>

beyondSearch == <<distanceVars, sessionVars, appendVars, furtherVars>>

vars == <<haversine, stations, outcome, request, fetched, applied, result,
          escaped, status, response, beyondSearch>>

calculate_distance(lat1, lon1, lat2, lon2) ==
    (CHOOSE e \in haversine : e[1] = <<lat1, lon1, lat2, lon2>>)[2]

----------------------------------------------------------------------------
(* StationService.get_nearby_stations *)

\* Python truthiness of an Optional[float]: None and 0.0 are falsy.
Truthy(x) == x # None /\ Val(x) # 0

\* SQL comparison column >= value: NULL compares as unknown, the row is out.
SqlGreaterEqual(column, value) == column # NULL /\ Val(column) >= value

\* Mutant: the query forgets the latitude.
HasCoordinatesLonOnly(s) == s.lon # NULL

HasCoordinates(s) == s.lat # NULL /\ s.lon # NULL

PowerFilter(s, min_power) ==
    Truthy(min_power) => SqlGreaterEqual(s.power_class_kw, Val(min_power))

\* The rows the query of lines 17-23 selects.
Matching(table, min_power) ==
    {i \in 1..Len(table) :
        /\ HasCoordinates(Station(table, i))
        /\ PowerFilter(Station(table, i), min_power)}

\* The query has no ORDER BY: the store may return the rows in any order.
Orders(table, min_power) ==
    LET m == Matching(table, min_power)
    IN  {o \in [1..Cardinality(m) -> m] :
            \A i, j \in 1..Cardinality(m) : o[i] = o[j] => i = j}

\* query.all(), the store returning the selected rows in the given order.
QueryAll(table, order) == [k \in 1..Len(order) |-> Station(table, order[k])]

\* The call at line 30; an absent coordinate makes the subtraction raise.
DistanceCall(lat, lng, s) ==
    IF s.lat = NULL \/ s.lon = NULL
    THEN [raised |-> TRUE, value |-> 0]
    ELSE calculate_distance(lat, lng, Val(s.lat), Val(s.lon))

\* Mutant: the comparison is the wrong way round.
WithinRadiusFlipped(distance, radius) == distance >= radius

\* Mutant: the radius is not looked at.
WithinRadiusIgnored(distance, radius) == TRUE

WithinRadius(distance, radius) == distance <= radius

\* station.distance = distance
WithDistance(s, distance) ==
    [id             |-> s.id,
     lat            |-> s.lat,
     lon            |-> s.lon,
     power_class_kw |-> s.power_class_kw,
     distance       |-> distance]

\* The loop of lines 28-33, from candidate i on.
RECURSIVE FilterByDistance(_, _, _, _, _, _, _)
FilterByDistance(candidates, i, lat, lng, radius, nearby, calls) ==
    IF i > Len(candidates)
    THEN [raised |-> FALSE, nearby |-> nearby, calls |-> calls]
    ELSE LET s == candidates[i]
             d == DistanceCall(lat, lng, s)
             made == Append(calls, <<s.lat, s.lon>>)
         IN  IF d.raised
             THEN [raised |-> TRUE, nearby |-> nearby, calls |-> made]
             ELSE FilterByDistance(candidates, i + 1, lat, lng, radius,
                      IF WithinRadius(d.value, radius)
                      THEN Append(nearby, WithDistance(s, d.value))
                      ELSE nearby,
                      made)

\* list.sort(key=lambda x: x.distance): ascending and stable, an entry goes
\* behind every entry already placed whose key is not greater.
\* Mutant: an entry goes in front of the entries with an equal key.
ComesBeforeStrict(x, y) == x.distance < y.distance

ComesBefore(x, y) == x.distance <= y.distance

RECURSIVE InsertSorted(_, _)
InsertSorted(sorted, x) ==
    IF sorted = << >> THEN <<x>>
    ELSE LET last == sorted[Len(sorted)]
         IN  IF ComesBefore(last, x)
             THEN Append(sorted, x)
             ELSE Append(InsertSorted(SubSeq(sorted, 1, Len(sorted) - 1), x),
                         last)

\* Mutant: the list is returned as filtered, the sort is missing.
SortByDistanceSkipped(list) == list

RECURSIVE SortByDistance(_)
SortByDistance(list) ==
    IF list = << >> THEN << >>
    ELSE InsertSorted(SortByDistance(SubSeq(list, 1, Len(list) - 1)),
                      list[Len(list)])

\* The body of the try block, lines 17-38.
TryBody(table, dbFails, order, lat, lng, radius) ==
    IF dbFails
    THEN [raised |-> TRUE, outcome |-> "query_error", fetched |-> << >>,
          applied |-> << >>, value |-> << >>]
    ELSE LET candidates == QueryAll(table, order)
             loop == FilterByDistance(candidates, 1, lat, lng, radius,
                                      << >>, << >>)
         IN  IF loop.raised
             THEN [raised |-> TRUE, outcome |-> "distance_error",
                   fetched |-> candidates, applied |-> loop.calls,
                   value |-> << >>]
             ELSE [raised |-> FALSE, outcome |-> "returned",
                   fetched |-> candidates, applied |-> loop.calls,
                   value |-> SortByDistance(loop.nearby)]

\* Mutant: no except clause, the exception leaves the call.
get_nearby_stations_uncaught(table, dbFails, order, lat, lng, radius) ==
    LET body == TryBody(table, dbFails, order, lat, lng, radius)
    IN  [outcome |-> body.outcome,
         fetched |-> body.fetched,
         applied |-> body.applied,
         escaped |-> body.raised,
         result  |-> IF body.raised THEN << >> ELSE body.value]

\* Mutant: the except clause guards the query only, an exception of the
\* loop leaves the call.
get_nearby_stations_loop_unguarded(table, dbFails, order, lat, lng, radius) ==
    LET body == TryBody(table, dbFails, order, lat, lng, radius)
    IN  [outcome |-> body.outcome,
         fetched |-> body.fetched,
         applied |-> body.applied,
         escaped |-> body.outcome = "distance_error",
         result  |-> IF body.raised THEN << >> ELSE body.value]

\* try ... except Exception: return []
get_nearby_stations(table, dbFails, order, lat, lng, radius) ==
    LET body == TryBody(table, dbFails, order, lat, lng, radius)
    IN  [outcome |-> body.outcome,
         fetched |-> body.fetched,
         applied |-> body.applied,
         escaped |-> FALSE,
         result  |-> IF body.raised THEN << >> ELSE body.value]

----------------------------------------------------------------------------
(* app/schemas/station.py and GET /api/stations/nearby *)

\* The fields of StationResponse, over the modelled columns.
StationResponseFields == {"id", "lat", "lon", "power_class_kw"}

StationResponse(obj) == [f \in StationResponseFields |-> obj[f]]

\* response_model=List[StationResponse]
Serialize(list) == [i \in 1..Len(list) |-> StationResponse(list[i])]

\* Mutant: the call commits the session and the distance is a column.
StoreAfterSearchDistanceWritten(table, list) ==
    [i \in 1..Len(table) |->
        IF \E k \in 1..Len(list) : list[k].id = i
        THEN [lat            |-> table[i].lat,
              lon            |-> table[i].lon,
              power_class_kw |-> table[i].power_class_kw,
              distance       |-> list[CHOOSE k \in 1..Len(list) :
                                         list[k].id = i].distance]
        ELSE table[i]]

\* What the call leaves in the store: it adds, deletes, flushes and commits
\* nothing, and distance is a plain attribute of the loaded objects, not a
\* column of the stations table, so the rows are the rows it found.
StoreAfterSearch(table, list) == table

\* One request: the handler calls the service and returns its list, which
\* the framework serialises; an exception out of the handler is a 500.
Serve(lat, lng, radius, min_power, dbFails, order) ==
    /\ LET r == get_nearby_stations(stations, dbFails, order, lat, lng, radius)
       IN  /\ stations' = StoreAfterSearch(stations, r.result)
           /\ outcome' = r.outcome
           /\ fetched' = r.fetched
           /\ applied' = r.applied
           /\ result' = r.result
           /\ escaped' = r.escaped
           /\ status' = IF r.escaped THEN 500 ELSE 200
           /\ response' = IF r.escaped THEN << >> ELSE Serialize(r.result)
    /\ request' = [lat |-> lat, lng |-> lng, radius |-> radius,
                   min_power |-> min_power]
    /\ UNCHANGED <<haversine, beyondSearch>>

\* GET /api/stations/nearby with the store answering the query.
NearbyEndpoint ==
    /\ outcome = "idle"
    /\ \E lat \in OriginLats, lng \in OriginLngs, radius \in Radii,
          min_power \in MinPowers :
          \E order \in Orders(stations, min_power) :
             Serve(lat, lng, radius, min_power, FALSE, order)

\* GET /api/stations/nearby with the query raising.
NearbyEndpointDbError ==
    /\ outcome = "idle"
    /\ \E lat \in OriginLats, lng \in OriginLngs, radius \in Radii,
          min_power \in MinPowers :
          Serve(lat, lng, radius, min_power, TRUE, << >>)

\* The request scope ends: the session is closed, the objects are dropped.
EndRequest ==
    /\ outcome # "idle"
    /\ outcome' = "idle"
    /\ request' = None
    /\ fetched' = << >>
    /\ applied' = << >>
    /\ result' = << >>
    /\ escaped' = FALSE
    /\ status' = 0
    /\ response' = << >>
    /\ UNCHANGED <<haversine, stations, beyondSearch>>

\* No request is being served.
NoRequest ==
    /\ outcome = "idle"
    /\ request = None
    /\ fetched = << >>
    /\ applied = << >>
    /\ result = << >>
    /\ escaped = FALSE
    /\ status = 0
    /\ response = << >>

\* The distance function is not being called on its own.
NoDistanceCall ==
    /\ coordinates = None
    /\ forward = None
    /\ backward = None

\* No invocation is traced step by step.
NoSessions ==
    /\ heap = << >>
    /\ searches = << >>

\* No registration is traced.
NoRegistration ==
    /\ users = << >>
    /\ registrations = << >>

\* GET /stats is not called.
NoStats ==
    /\ catalogue = None
    /\ stats = None

\* ingest_csv is not run.
NoIngest ==
    /\ csvRows = None
    /\ target = None
    /\ ingest = << >>

\* The append script is not run, and nothing beside it.
NoAppend ==
    /\ file = None
    /\ storedIds = {}
    /\ tailStored = 0
    /\ history = << >>
    /\ NoRegistration
    /\ NoStats
    /\ NoIngest

Init ==
    /\ haversine = DistanceTable
    /\ stations \in Tables
    /\ NoRequest
    /\ NoDistanceCall
    /\ NoSessions
    /\ NoAppend

Next ==
    \/ NearbyEndpoint
    \/ NearbyEndpointDbError
    \/ EndRequest

Spec == Init /\ [][Next]_vars

----------------------------------------------------------------------------
(* StationService._calculate_distance, called on its own *)

\* The coordinates the function is called with: degrees inside the
\* geographic range and a latitude outside it.
DistanceLats == {-12, 0, 12, 100}

DistanceLons == {0, 180}

\* _calculate_distance(lat1, lon1, lat2, lon2)
CalculateDistance ==
    /\ forward = None
    /\ forward' = Some(Haversine(coordinates[1], coordinates[2],
                                 coordinates[3], coordinates[4]))
    /\ UNCHANGED <<haversine, stations, outcome, request, fetched, applied,
                   result, escaped, status, response, coordinates, backward,
                   sessionVars, appendVars, furtherVars>>

\* _calculate_distance(lat2, lon2, lat1, lon1)
CalculateDistanceSwapped ==
    /\ backward = None
    /\ backward' = Some(Haversine(coordinates[3], coordinates[4],
                                  coordinates[1], coordinates[2]))
    /\ UNCHANGED <<haversine, stations, outcome, request, fetched, applied,
                   result, escaped, status, response, coordinates, forward,
                   sessionVars, appendVars, furtherVars>>

InitDistance ==
    /\ haversine = {}
    /\ stations = << >>
    /\ NoRequest
    /\ coordinates \in DistanceLats \X DistanceLons \X DistanceLats \X DistanceLons
    /\ forward = None
    /\ backward = None
    /\ NoSessions
    /\ NoAppend

NextDistance ==
    \/ CalculateDistance
    \/ CalculateDistanceSwapped

SpecDistance == InitDistance /\ [][NextDistance]_vars

----------------------------------------------------------------------------
(* get_nearby_stations step by step: several invocations of the one
   station_service, each on the Session its caller passes as db *)

\* The invocations and the sessions of the process.
Invocations == {1, 2}

Sessions == {1, 2}

SessionOrigins == {<<0, 0>>, <<12, 0>>, <<12, 180>>}

SessionRadii == {1500, 20000}

\* The stored stations of these runs: every row has its coordinates.
SessionTables ==
    {t \in Tables :
        \A i \in 1..Len(t) :
           /\ HasCoordinates(Station(t, i))
           /\ t[i].power_class_kw = NULL}

\* Mutant: every session hands out the same object for a row.
ObjectShared(session, id) == <<1, id>>

\* The Station object query.all() returns for a row: a session keeps one
\* object per row in its identity map and returns it to every query made
\* through it.
Object(session, id) == <<session, id>>

\* A Session serves one invocation at a time; between invocations the caller
\* may pass the same Session again.
SessionAvailable(s) ==
    \A q \in Invocations : searches[q].pc = "loop" => searches[q].session # s

\* query.all() of lines 17-25 for min_power None, rows in primary-key order.
ScanOrder(table) ==
    CHOOSE o \in Orders(table, None) :
       \A i, j \in 1..Len(o) : i < j => o[i] < o[j]

NotCalled ==
    [pc |-> "idle", session |-> 0, lat |-> 0, lng |-> 0, radius |-> 0,
     candidates |-> << >>, i |-> 0, nearby |-> << >>, returned |-> << >>,
     seen |-> << >>, concurrent |-> FALSE]

\* Lines 16-28: the call starts, the query returns the candidates.
BeginSearch(p) ==
    /\ searches # << >>
    /\ searches[p].pc = "idle"
    /\ \E s \in Sessions, origin \in SessionOrigins, radius \in SessionRadii :
          /\ SessionAvailable(s)
          /\ searches' = [searches EXCEPT ![p] =
                 [pc |-> "loop", session |-> s, lat |-> origin[1],
                  lng |-> origin[2], radius |-> radius,
                  candidates |-> ScanOrder(stations), i |-> 1,
                  nearby |-> << >>, returned |-> << >>, seen |-> << >>,
                  concurrent |-> \E q \in Invocations : searches[q].pc = "loop"]]
    /\ UNCHANGED <<haversine, stations, outcome, request, fetched, applied,
                   result, escaped, status, response, distanceVars, heap,
                   appendVars, furtherVars>>

\* Lines 29-33 for one candidate: the distance, the comparison with the
\* radius, station.distance = distance, the append; an exception of the
\* distance call ends the invocation with the empty list (lines 40-42).
LoopStep(p) ==
    /\ searches # << >>
    /\ searches[p].pc = "loop"
    /\ searches[p].i <= Len(searches[p].candidates)
    /\ LET c == searches[p]
           id == c.candidates[c.i]
           d == DistanceCall(c.lat, c.lng, Station(stations, id))
       IN  IF d.raised
           THEN /\ searches' = [searches EXCEPT ![p].pc = "done",
                                          ![p].returned = << >>,
                                          ![p].seen = << >>]
                /\ heap' = heap
           ELSE IF WithinRadius(d.value, c.radius)
           THEN /\ heap' = [heap EXCEPT ![Object(c.session, id)] = Some(d.value)]
                /\ searches' = [searches EXCEPT ![p].i = c.i + 1,
                                          ![p].nearby = Append(c.nearby, id)]
           ELSE /\ heap' = heap
                /\ searches' = [searches EXCEPT ![p].i = c.i + 1]
    /\ UNCHANGED <<haversine, stations, outcome, request, fetched, applied,
                   result, escaped, status, response, distanceVars,
                   appendVars, furtherVars>>

\* The entries of a list of objects with the distance each object carries.
Entries(session, ids) ==
    [k \in 1..Len(ids) |->
        [id |-> ids[k], distance |-> Val(heap[Object(session, ids[k])])]]

\* Lines 36-38: the sort reads x.distance of every object, the list is
\* returned; seen is what the caller reads in it at that moment.
SortAndReturn(p) ==
    /\ searches # << >>
    /\ searches[p].pc = "loop"
    /\ searches[p].i > Len(searches[p].candidates)
    /\ LET c == searches[p]
           sorted == SortByDistance(Entries(c.session, c.nearby))
       IN  searches' = [searches EXCEPT
                        ![p].pc = "done",
                        ![p].returned = [k \in 1..Len(sorted) |-> sorted[k].id],
                        ![p].seen = [k \in 1..Len(sorted) |-> sorted[k].distance]]
    /\ UNCHANGED <<haversine, stations, outcome, request, fetched, applied,
                   result, escaped, status, response, distanceVars, heap,
                   appendVars, furtherVars>>

InitSessions ==
    /\ haversine = DistanceTable
    /\ stations \in SessionTables
    /\ NoRequest
    /\ NoDistanceCall
    /\ heap = [o \in Sessions \X (1..Len(stations)) |-> None]
    /\ searches = [p \in Invocations |-> NotCalled]
    /\ NoAppend

NextSessions ==
    \E p \in Invocations :
       \/ BeginSearch(p)
       \/ LoopStep(p)
       \/ SortAndReturn(p)

SpecSessions == InitSessions /\ [][NextSessions]_vars

----------------------------------------------------------------------------
(* scripts/dynamic_append.py: StationsDataAppender.append_to_stations *)

MaxCsvRows == 3

CsvIds == {"a", "b"}

CsvTails == {0, 100000}

Runs == {1, 2}

\* self.MAX_ROWS = 100000
MAX_ROWS == 100000

batch_size == 1000

\* A CSV file: whether it has an id or station_id column, its first rows by
\* the id they carry, and the number of rows that follow them, each with an
\* id of its own that no other row and no station stored before carries.
CsvFiles ==
    {[has_id |-> h, rows |-> r, tail |-> t] :
        h \in BOOLEAN,
        r \in UNION {[1..n -> CsvIds] : n \in 0..MaxCsvRows},
        t \in CsvTails}

Min(a, b) == IF a < b THEN a ELSE b

\* df.head(n)
DfHead(df, n) ==
    [has_id |-> df.has_id,
     rows   |-> SubSeq(df.rows, 1, Min(Len(df.rows), n)),
     tail   |-> Min(df.tail, n - Min(Len(df.rows), n))]

\* The records map_to_stations_schema makes of the first MAX_ROWS rows:
\* station_id is str(row['id']), or None without such a column.
map_to_stations_schema(df) ==
    LET limited_df == DfHead(df, MAX_ROWS)
    IN  [has_id |-> df.has_id,
         rows   |-> [k \in 1..Len(limited_df.rows) |->
                       IF df.has_id THEN Some(limited_df.rows[k]) ELSE None],
         tail   |-> limited_df.tail]

\* SELECT station_id FROM stations WHERE station_id IS NOT NULL
get_existing_station_ids(ids) == ids

\* Lines 163-171: a record is new if its station_id is truthy and not among
\* the ids read from the table before the loop.
RECURSIVE FilterNew(_, _)
FilterNew(records, existing_ids) ==
    IF records = << >> THEN << >>
    ELSE LET data == Head(records)
             rest == FilterNew(Tail(records), existing_ids)
         IN  IF data # None /\ Val(data) \notin existing_ids
             THEN <<Val(data)>> \o rest
             ELSE rest

\* The further rows that pass the same filter: those not stored yet.
NewTail(mapped, stored) == IF mapped.has_id THEN mapped.tail - stored ELSE 0

\* The new records among the first rows of the file.
NewRecords(df, ids) ==
    FilterNew(map_to_stations_schema(DfHead(df, MAX_ROWS)).rows,
              get_existing_station_ids(ids))

\* At most one INSERT of a run fails for a reason of its own: the server
\* rejects the statement (a data error), or execute raises before anything
\* is sent (a value psycopg2 cannot adapt).
Faults(n) ==
    {[at |-> 0, kind |-> "none"]} \cup
    {[at |-> k, kind |-> f] : k \in 1..n, f \in {"rejected", "client_error"}}

\* Lines 190-203 for the records from k on. A statement the server rejects,
\* also for a station_id the unique index already holds, aborts the
\* transaction; every later statement of the transaction is refused; the
\* except clause logs and the loop goes on.
RECURSIVE InsertRecords(_, _, _, _)
InsertRecords(records, k, fault, tx) ==
    IF k > Len(records) THEN tx
    ELSE LET id == records[k]
             failure == IF fault.at = k THEN fault.kind ELSE "none"
         IN  InsertRecords(records, k + 1, fault,
                IF failure = "client_error"
                THEN [tx EXCEPT !.outcomes = Append(@, "client_error")]
                ELSE IF tx.aborted
                THEN [tx EXCEPT !.issued = Append(@, id),
                                !.outcomes = Append(@, "refused")]
                ELSE IF failure = "rejected" \/ id \in tx.visible
                THEN [tx EXCEPT !.issued = Append(@, id),
                                !.aborted = TRUE,
                                !.outcomes = Append(@, "rejected")]
                ELSE [tx EXCEPT !.issued = Append(@, id),
                                !.visible = @ \cup {id},
                                !.added = @ \cup {id},
                                !.inserted_count = @ + 1,
                                !.outcomes = Append(@, "inserted")])

\* self.conn.commit(): the rows of the transaction become durable, unless
\* the transaction is aborted, when the commit ends it as a rollback.
Commit(ids, tx) == IF tx.aborted THEN ids ELSE ids \cup tx.added

\* append_to_stations for a file that exists, lines 136-217. The new records
\* of the first rows fall into the first batch, followed by the first of the
\* further rows; the other batches hold further rows only.
append_to_stations(df0, ids, stored, fault) ==
    LET df == IF Len(df0.rows) + df0.tail > MAX_ROWS THEN DfHead(df0, MAX_ROWS)
                                                     ELSE df0
        mapped_data == map_to_stations_schema(df)
        existing_ids == get_existing_station_ids(ids)
        new_data == FilterNew(mapped_data.rows, existing_ids)
        new_tail == NewTail(mapped_data, stored)
        tx == InsertRecords(new_data, 1, fault,
                 [visible |-> ids, added |-> {}, aborted |-> FALSE,
                  issued |-> << >>, outcomes |-> << >>, inserted_count |-> 0])
        first_batch_tail == Min(new_tail, batch_size - Len(new_data))
        durable_tail == (IF tx.aborted THEN 0 ELSE first_batch_tail)
                        + (new_tail - first_batch_tail)
    IN  [status         |-> "done",
         returned       |-> TRUE,
         before         |-> ids,
         mapped         |-> Len(mapped_data.rows) + mapped_data.tail,
         new_data       |-> new_data,
         new_tail       |-> new_tail,
         issued         |-> tx.issued,
         outcomes       |-> tx.outcomes,
         inserted_count |-> tx.inserted_count
                            + (IF tx.aborted THEN 0 ELSE first_batch_tail)
                            + (new_tail - first_batch_tail),
         after          |-> Commit(ids, tx),
         added_tail     |-> durable_tail]

NotRun ==
    [status |-> "none", returned |-> FALSE, before |-> {}, mapped |-> 0,
     new_data |-> << >>, new_tail |-> 0, issued |-> << >>, outcomes |-> << >>,
     inserted_count |-> 0, after |-> {}, added_tail |-> 0]

\* The run that comes next.
NextRun == CHOOSE r \in Runs : history[r].status = "none" /\
                                \A q \in Runs : q < r => history[q].status # "none"

\* One run of append_to_stations on the file.
AppendToStations ==
    /\ history # << >>
    /\ \E r \in Runs : history[r].status = "none"
    /\ file # None
    /\ \E fault \in Faults(Len(NewRecords(Val(file), storedIds))) :
          LET run == append_to_stations(Val(file), storedIds, tailStored, fault)
          IN  /\ history' = [history EXCEPT ![NextRun] = run]
              /\ storedIds' = run.after
              /\ tailStored' = tailStored + run.added_tail
    /\ UNCHANGED <<haversine, stations, outcome, request, fetched, applied,
                   result, escaped, status, response, distanceVars,
                   sessionVars, furtherVars, file>>

\* Lines 127-130: the file is not found, the run returns False.
AppendToStationsNoFile ==
    /\ history # << >>
    /\ \E r \in Runs : history[r].status = "none"
    /\ file = None
    /\ history' = [history EXCEPT ![NextRun] =
                      [NotRun EXCEPT !.status = "no_file", !.before = storedIds,
                                     !.after = storedIds]]
    /\ UNCHANGED <<haversine, stations, outcome, request, fetched, applied,
                   result, escaped, status, response, distanceVars,
                   sessionVars, furtherVars, file, storedIds, tailStored>>

InitAppend ==
    /\ haversine = {}
    /\ stations = << >>
    /\ NoRequest
    /\ NoDistanceCall
    /\ NoSessions
    /\ file \in Optional(CsvFiles)
    /\ storedIds \in SUBSET CsvIds
    /\ tailStored = 0
    /\ history = [r \in Runs |-> NotRun]
    /\ NoRegistration
    /\ NoStats
    /\ NoIngest

NextAppend ==
    \/ AppendToStations
    \/ AppendToStationsNoFile

SpecAppend == InitAppend /\ [][NextAppend]_vars

----------------------------------------------------------------------------
(* app/api/endpoints/auth.py: POST /register, requests served side by side
   by the workers of the application over the one users table *)

Requests == {1, 2, 3}

Emails == {"a@example.com", "b@example.com"}

\* The users table as scripts/test_local.py leaves it: empty, or with the
\* test user.
SeededUsers == {<< >>, <<"a@example.com">>}

\* db.query(User).filter(User.email == user_data.email).first()
ExistingUser(rows, email) == \E i \in 1..Len(rows) : rows[i] = email

\* email VARCHAR UNIQUE NOT NULL: the INSERT of a stored email is refused.
UniqueViolation(rows, email) == \E i \in 1..Len(rows) : rows[i] = email

NotRequested == [pc |-> "waiting", email |-> "", status |-> 0, added |-> FALSE]

\* Lines 13-18: the lookup; a stored email is answered with 400.
CheckExisting(r) ==
    /\ registrations # << >>
    /\ registrations[r].pc = "waiting"
    /\ \E email \in Emails :
          registrations' = [registrations EXCEPT ![r] =
             IF ExistingUser(users, email)
             THEN [pc |-> "done", email |-> email, status |-> 400,
                   added |-> FALSE]
             ELSE [pc |-> "checked", email |-> email, status |-> 0,
                   added |-> FALSE]]
    /\ UNCHANGED <<haversine, stations, outcome, request, fetched, applied,
                   result, escaped, status, response, distanceVars,
                   sessionVars, appendVars, users, statsVars, ingestVars>>

\* Lines 21-32: the user is added and committed; the IntegrityError of a
\* refused INSERT is caught nowhere and the request ends with 500.
AddAndCommit(r) ==
    /\ registrations # << >>
    /\ registrations[r].pc = "checked"
    /\ IF UniqueViolation(users, registrations[r].email)
       THEN /\ users' = users
            /\ registrations' = [registrations EXCEPT ![r].pc = "done",
                                                      ![r].status = 500]
       ELSE /\ users' = Append(users, registrations[r].email)
            /\ registrations' = [registrations EXCEPT ![r].pc = "done",
                                                      ![r].status = 200,
                                                      ![r].added = TRUE]
    /\ UNCHANGED <<haversine, stations, outcome, request, fetched, applied,
                   result, escaped, status, response, distanceVars,
                   sessionVars, appendVars, statsVars, ingestVars>>

InitRegister ==
    /\ haversine = {}
    /\ stations = << >>
    /\ NoRequest
    /\ NoDistanceCall
    /\ NoSessions
    /\ file = None
    /\ storedIds = {}
    /\ tailStored = 0
    /\ history = << >>
    /\ users \in SeededUsers
    /\ registrations = [r \in Requests |-> NotRequested]
    /\ NoStats
    /\ NoIngest

NextRegister ==
    \E r \in Requests :
       \/ CheckExisting(r)
       \/ AddAndCommit(r)

SpecRegister == InitRegister /\ [][NextRegister]_vars

----------------------------------------------------------------------------
(* app/api/endpoints/stations.py: GET /api/stations/stats *)

MaxCatalogue == 2

\* The columns of a station the statistics read.
CatalogueColumns ==
    [lat            : Optional({12}),
     lon            : Optional({0}),
     country        : Optional({"", "DE"}),
     power_class_kw : Optional({0, 50, 150})]

Catalogues == UNION {[1..n -> CatalogueColumns] : n \in 0..MaxCatalogue}

\* The number of rows a filtered query counts.
CountWhere(rows, selected) == Cardinality({i \in 1..Len(rows) : i \in selected})

\* Lines 47-52: country and power of the rows whose country is not NULL.
CountryStats(rows) == {i \in 1..Len(rows) : rows[i].country # NULL}

\* len(set([stat[0] for stat in country_stats if stat[0]])): the empty
\* string is falsy.
Countries(rows) ==
    {Val(rows[i].country) : i \in {j \in CountryStats(rows) :
                                      Val(rows[j].country) # ""}}

\* [stat[1] for stat in country_stats if stat[1]]: None and 0 are falsy.
KnownPowers(rows) ==
    {i \in CountryStats(rows) :
        rows[i].power_class_kw # NULL /\ Val(rows[i].power_class_kw) # 0}

RECURSIVE SumPowers(_, _)
SumPowers(rows, selected) ==
    IF selected = {} THEN 0
    ELSE LET i == CHOOSE j \in selected : TRUE
         IN  Val(rows[i].power_class_kw) + SumPowers(rows, selected \ {i})

\* The handler, lines 38-61; the average is kept in hundredths of a kW, as
\* round(avg_power, 2) leaves it; a division by zero leaves the handler as
\* an exception and the request ends with 500.
get_station_stats(rows) ==
    IF Cardinality(KnownPowers(rows)) = 0
    THEN [status |-> 500, body |-> << >>]
    ELSE [status |-> 200,
          body   |->
             [total_stations            |-> Len(rows),
              stations_with_coordinates |->
                 CountWhere(rows, {i \in 1..Len(rows) :
                                      rows[i].lat # NULL /\ rows[i].lon # NULL}),
              countries_covered         |-> Cardinality(Countries(rows)),
              average_power_kw          |->
                 RoundDiv(100 * SumPowers(rows, KnownPowers(rows)),
                          Cardinality(KnownPowers(rows)))]]

GetStationStats ==
    /\ catalogue # None
    /\ stats = None
    /\ stats' = Some(get_station_stats(Val(catalogue)))
    /\ UNCHANGED <<haversine, stations, outcome, request, fetched, applied,
                   result, escaped, status, response, distanceVars,
                   sessionVars, appendVars, registerVars, catalogue,
                   ingestVars>>

InitStats ==
    /\ haversine = {}
    /\ stations = << >>
    /\ NoRequest
    /\ NoDistanceCall
    /\ NoSessions
    /\ file = None
    /\ storedIds = {}
    /\ tailStored = 0
    /\ history = << >>
    /\ NoRegistration
    /\ catalogue \in {Some(c) : c \in Catalogues}
    /\ stats = None
    /\ NoIngest

NextStats == GetStationStats

SpecStats == InitStats /\ [][NextStats]_vars

----------------------------------------------------------------------------
(* scripts/ingest_csv.py: SupabaseCSVIngestor.ingest_csv *)

\* The numbers of rows of the CSV file.
RowCounts == {0, 1, 999, 1000, 1001, 2500}

chunk_size == 1000

\* The runs of ingest_csv on the file, one after the other.
Ingestions == {1, 2}

\* Rows from..to of the file, or rows the table held before.
Segment(kind, from, to) == [kind |-> kind, from |-> from, to |-> to]

\* The table before the first run: missing, empty, or with rows of its own.
OldTables == {None, Some(<< >>), Some(<<Segment("old", 1, 3)>>)}

\* if_exists='replace': the table is dropped and created with the rows.
ToSqlReplace(old, rows) == Some(<<rows>>)

\* if_exists='append': the rows go behind the rows of the table, which is
\* created if it is missing.
ToSqlAppend(old, rows) ==
    IF old = None THEN Some(<<rows>>) ELSE Some(Append(Val(old), rows))

\* df[i:i + chunk_size]
Chunk(n, i) == Segment("csv", i + 1, Min(i + chunk_size, n))

Idle == [run |-> 0, status |-> "idle", i |-> 0]

\* Lines 162-192: the file is looked up and read.
StartIngest ==
    /\ ingest # << >>
    /\ ingest.status # "running"
    /\ ingest.run + 1 \in Ingestions
    /\ ingest' = [run    |-> ingest.run + 1,
                  status |-> IF csvRows = None THEN "no_file" ELSE "running",
                  i      |-> 0]
    /\ UNCHANGED <<haversine, stations, outcome, request, fetched, applied,
                   result, escaped, status, response, distanceVars,
                   sessionVars, appendVars, registerVars, statsVars,
                   csvRows, target>>

\* Lines 194-203, one pass of the loop: the first chunk replaces the table,
\* every later chunk is appended.
IngestChunk ==
    /\ ingest # << >>
    /\ ingest.status = "running"
    /\ ingest.i < Val(csvRows)
    /\ target' = IF ingest.i > 0
                 THEN ToSqlAppend(target, Chunk(Val(csvRows), ingest.i))
                 ELSE ToSqlReplace(target, Chunk(Val(csvRows), ingest.i))
    /\ ingest' = [ingest EXCEPT !.i = @ + chunk_size]
    /\ UNCHANGED <<haversine, stations, outcome, request, fetched, applied,
                   result, escaped, status, response, distanceVars,
                   sessionVars, appendVars, registerVars, statsVars,
                   csvRows>>

\* to_sql raises: the chunk is not written, lines 213-219 log the error.
IngestChunkFails ==
    /\ ingest # << >>
    /\ ingest.status = "running"
    /\ ingest.i < Val(csvRows)
    /\ ingest' = [ingest EXCEPT !.status = "error"]
    /\ UNCHANGED <<haversine, stations, outcome, request, fetched, applied,
                   result, escaped, status, response, distanceVars,
                   sessionVars, appendVars, registerVars, statsVars,
                   csvRows, target>>

\* Lines 205-211: the loop is over, the rows of the table are counted; the
\* count of a missing table raises and is logged as an error.
FinishIngest ==
    /\ ingest # << >>
    /\ ingest.status = "running"
    /\ ingest.i >= Val(csvRows)
    /\ ingest' = [ingest EXCEPT
                     !.status = IF target = None THEN "error" ELSE "done"]
    /\ UNCHANGED <<haversine, stations, outcome, request, fetched, applied,
                   result, escaped, status, response, distanceVars,
                   sessionVars, appendVars, registerVars, statsVars,
                   csvRows, target>>

InitIngest ==
    /\ haversine = {}
    /\ stations = << >>
    /\ NoRequest
    /\ NoDistanceCall
    /\ NoSessions
    /\ file = None
    /\ storedIds = {}
    /\ tailStored = 0
    /\ history = << >>
    /\ NoRegistration
    /\ NoStats
    /\ csvRows \in Optional(RowCounts)
    /\ target \in OldTables
    /\ ingest = Idle

NextIngest ==
    \/ StartIngest
    \/ IngestChunk
    \/ IngestChunkFails
    \/ FinishIngest

SpecIngest == InitIngest /\ [][NextIngest]_vars

----------------------------------------------------------------------------
(* Properties of the search *)

Served == outcome # "idle"

FetchSucceeded == outcome \in {"returned", "distance_error"}

Ids(list) == {list[i].id : i \in 1..Len(list)}

Position(list, id) == CHOOSE k \in 1..Len(list) : list[k].id = id

Occurrences(list, id) == Cardinality({i \in 1..Len(list) : list[i].id = id})

FetchedOrder == [k \in 1..Len(fetched) |-> fetched[k].id]

\* C1: the list get_nearby_stations returns is ordered nearest-first: the
\* distance of each entry is at most the distance of the entry after it.
C1_NearestFirst ==
    \A i \in 1..(Len(result) - 1) : result[i].distance <= result[i + 1].distance

\* A returned list whose entries the sort had to swap.
C1_Witness ==
    /\ outcome = "returned"
    /\ \E i, j \in 1..Len(result) :
          /\ result[i].distance < result[j].distance
          /\ Position(fetched, result[i].id) > Position(fetched, result[j].id)

\* C2: when the fetch succeeds, a candidate is in the result exactly once if
\* its distance from the origin is at most the radius, and not at all
\* otherwise; nothing else is in the result.
C2_ExactlyTheRetained ==
    FetchSucceeded =>
       /\ Ids(result) \subseteq Ids(fetched)
       /\ \A k \in 1..Len(fetched) :
             LET d == DistanceCall(request.lat, request.lng, fetched[k])
             IN  Occurrences(result, fetched[k].id) =
                    IF ~d.raised /\ d.value <= request.radius THEN 1 ELSE 0

\* C3: with a min-power threshold supplied, every returned station has a
\* known power class that is at least the threshold.
C3_MinPowerRespected ==
    (Served /\ request.min_power # None) =>
       \A i \in 1..Len(result) :
          /\ result[i].power_class_kw # NULL
          /\ Val(result[i].power_class_kw) >= Val(request.min_power)

\* C4: no returned station lacks its latitude or its longitude, and the
\* distance function is never applied to an absent coordinate.
C4_NoAbsentCoordinate ==
    /\ \A i \in 1..Len(result) : result[i].lat # NULL /\ result[i].lon # NULL
    /\ \A k \in 1..Len(applied) : applied[k][1] # NULL /\ applied[k][2] # NULL

\* A search that returned stations from a table that also holds a station
\* without latitude or without longitude.
C4_Witness ==
    /\ outcome = "returned"
    /\ result # << >>
    /\ \E i \in 1..Len(stations) :
          stations[i].lat = NULL \/ stations[i].lon = NULL

\* C5: when the query raises, get_nearby_stations returns the empty list and
\* no exception leaves it.
C5_FetchFailureGivesEmpty ==
    outcome = "query_error" => (result = << >> /\ ~escaped)

\* A failed query over a table that holds stations the query would select.
C5_Witness ==
    /\ outcome = "query_error"
    /\ Matching(stations, request.min_power) # {}

\* C6: every record of the HTTP response carries the distance the search
\* attached to its entry, and the records are in the order of the search.
C6_ResponseCarriesDistance ==
    (Served /\ status = 200) =>
       /\ Len(response) = Len(result)
       /\ \A i \in 1..Len(response) :
             /\ response[i].id = result[i].id
             /\ "distance" \in DOMAIN response[i]
             /\ response[i].distance = result[i].distance

\* C7: for the same origin, min-power and candidates, every station returned
\* for the radius of the request is returned for every larger radius.
C7_RadiusMonotone ==
    FetchSucceeded =>
       \A r2 \in Radii :
          request.radius < r2 =>
             Ids(result) \subseteq
                Ids(get_nearby_stations(stations, FALSE, FetchedOrder,
                                        request.lat, request.lng, r2).result)

\* A non-empty result that a larger radius extends.
C7_Witness ==
    /\ outcome = "returned"
    /\ result # << >>
    /\ \E r2 \in Radii :
          /\ request.radius < r2
          /\ Ids(get_nearby_stations(stations, FALSE, FetchedOrder,
                                     request.lat, request.lng, r2).result)
                # Ids(result)

\* C8: with radius 0 only stations at distance 0 are returned, with a
\* negative radius nothing is returned.
C8_ZeroAndNegativeRadius ==
    Served =>
       /\ request.radius = 0 => \A i \in 1..Len(result) : result[i].distance = 0
       /\ request.radius < 0 => result = << >>

\* Radius 0 with one candidate at the origin, returned, and one elsewhere.
C8_Witness ==
    /\ outcome = "returned"
    /\ request.radius = 0
    /\ result # << >>
    /\ Len(fetched) > Len(result)

AtOrigin(i) ==
    /\ stations[i].lat = Some(request.lat)
    /\ stations[i].lon = Some(request.lng)

ReturnedAtDistanceZero(i) ==
    \E k \in 1..Len(result) : result[k].id = i /\ result[k].distance = 0

\* The power filter as the code applies it: none for an absent or zero
\* threshold, otherwise a known power class of at least the threshold.
PassesPower(i) ==
    \/ request.min_power = None
    \/ Val(request.min_power) = 0
    \/ /\ stations[i].power_class_kw # NULL
       /\ Val(stations[i].power_class_kw) >= Val(request.min_power)

C10_StableTies ==
    \A i, j \in 1..Len(result) :
       (i < j /\ result[i].distance = result[j].distance) =>
          Position(fetched, result[i].id) < Position(fetched, result[j].id)

\* Two stations at the same distance that the query returned against the
\* order of their primary keys.
C10_Witness ==
    /\ outcome = "returned"
    /\ \E i, j \in 1..Len(result) :
          /\ i < j
          /\ result[i].distance = result[j].distance
          /\ result[i].id > result[j].id

\* C11: a search, successful or failed, leaves the stored stations as they
\* were: the same rows with the same columns, and no distance among them.
C11_StoreUntouched == [][stations' = stations]_vars

\* A search that attached a distance greater than 0 to a stored station.
C11_Witness ==
    /\ outcome = "returned"
    /\ \E k \in 1..Len(result) : result[k].distance > 0
    /\ \A i \in 1..Len(stations) : "distance" \notin DOMAIN stations[i]

\* C14: whatever the input and whichever step fails, the call ends by
\* returning a list and no exception leaves it; a failed search returns the
\* same empty list as a search that matched nothing.
C14_AlwaysAList ==
    Served =>
       /\ ~escaped
       /\ status = 200
       /\ DOMAIN result = 1..Len(result)
       /\ outcome \in {"query_error", "distance_error"} => result = << >>

\* A search that failed in a distance computation after the fetch succeeded.
C14_Witness ==
    /\ outcome = "distance_error"
    /\ Len(fetched) >= 2
    /\ result = << >>
    /\ ~escaped

\* The entries of a result whose power class is known and at least p.
RECURSIVE KeepPowered(_, _)
KeepPowered(list, p) ==
    IF list = << >> THEN << >>
    ELSE LET rest == KeepPowered(SubSeq(list, 1, Len(list) - 1), p)
             last == list[Len(list)]
         IN  IF last.power_class_kw # NULL /\ Val(last.power_class_kw) >= p
             THEN Append(rest, last)
             ELSE rest

\* The order o of the unfiltered query agrees with the order in which the
\* filtered query returned its rows.
RECURSIVE Restricted(_, _)
Restricted(o, ids) ==
    IF o = << >> THEN << >>
    ELSE IF o[1] \in ids THEN <<o[1]>> \o Restricted(Tail(o), ids)
                         ELSE Restricted(Tail(o), ids)

\* C15: with a threshold p supplied, the search returns what the search
\* without threshold returns once the entries with an absent power class or
\* one below p are removed, in the same order.
C15_PushdownIsPostFilter ==
    (FetchSucceeded /\ request.min_power # None) =>
       \A o \in Orders(stations, None) :
          Restricted(o, Ids(fetched)) = FetchedOrder =>
             result = KeepPowered(
                         get_nearby_stations(stations, FALSE, o, request.lat,
                                             request.lng, request.radius).result,
                         Val(request.min_power))

\* C16: the distance from the first point to the second equals the distance
\* from the second to the first, and one call raises exactly if the other
\* does.
C16_Symmetric ==
    (forward # None /\ backward # None) => Val(forward) = Val(backward)

\* Both directions computed for two different points a distance apart.
C16_Witness ==
    /\ forward # None
    /\ backward # None
    /\ ~Val(forward).raised
    /\ Val(forward).value > 0
    /\ coordinates[1] # coordinates[3]
    /\ coordinates[2] # coordinates[4]

\* C17: the distance function raises on no input: a lies in [0, 1], both
\* square roots are defined.
C17_NeverRaises ==
    forward # None => ~Val(forward).raised

\* The list an invocation returned, as its caller reads it now.
ReadNow(p) == Entries(searches[p].session, searches[p].returned)

\* The list an invocation returned, as its caller read it at the return.
ReadAtReturn(p) ==
    [k \in 1..Len(searches[p].returned) |->
        [id |-> searches[p].returned[k], distance |-> searches[p].seen[k]]]

\* C12: the distance of the entries one call returned is not changed by a
\* later call, also when both calls were handed the same Station objects.
C12_EntriesKeepDistance ==
    \A p \in DOMAIN searches :
       searches[p].pc = "done" => ReadNow(p) = ReadAtReturn(p)

\* What the invocation returns when it runs alone.
Alone(p) ==
    LET r == get_nearby_stations(stations, FALSE, ScanOrder(stations),
                                 searches[p].lat, searches[p].lng,
                                 searches[p].radius).result
    IN  [k \in 1..Len(r) |-> [id |-> r[k].id, distance |-> r[k].distance]]

\* C13: under every interleaving of invocations, each on a session no other
\* running invocation uses, an invocation returns the members, the order and
\* the distances it returns when it runs alone.
C13_AsIfAlone ==
    \A p \in DOMAIN searches :
       searches[p].pc = "done" => ReadAtReturn(p) = Alone(p)

\* Two invocations with different origins that ran at the same time and
\* returned the same two stations in opposite orders.
C13_Witness ==
    /\ searches # << >>
    /\ \A p \in Invocations : searches[p].pc = "done"
    /\ \E p \in Invocations : searches[p].concurrent
    /\ Len(searches[1].returned) = 2
    /\ Len(searches[2].returned) = 2
    /\ searches[1].returned # searches[2].returned

Done(r) == history # << >> /\ history[r].status = "done"

\* The INSERTs of a run that failed for a reason of their own.
OwnFailures(r) ==
    {k \in 1..Len(history[r].outcomes) :
        history[r].outcomes[k] \in {"rejected", "client_error"}}

\* C18: every INSERT of a run carries a station_id that no row of the table
\* carried when the run began and no earlier INSERT of the run carried, and
\* a second run on the same file after a first run without a failed INSERT
\* issues no INSERT.
C18_NoDuplicateInsert ==
    \A r \in DOMAIN history :
       Done(r) =>
          /\ \A k \in 1..Len(history[r].issued) :
                /\ history[r].issued[k] \notin history[r].before
                /\ \A j \in 1..(k - 1) :
                      history[r].issued[j] # history[r].issued[k]
          /\ (r = 2 /\ Done(1) /\ OwnFailures(1) = {}) =>
                (history[r].issued = << >> /\ history[r].new_tail = 0)

\* C19: a run maps at most 5,000 rows of the file and inserts at most 5,000
\* rows into the table.
C19_FiveThousandRows ==
    \A r \in DOMAIN history :
       Done(r) =>
          /\ history[r].mapped <= 5000
          /\ Cardinality(history[r].after \ history[r].before)
                + history[r].added_tail <= 5000

\* C20: when the INSERT of one record of a run fails, every other new record
\* of the batch is in the table once the batch is committed.
C20_OnlyTheFailingRecordLost ==
    \A r \in DOMAIN history :
       (Done(r) /\ Cardinality(OwnFailures(r)) = 1) =>
          /\ \A k \in 1..Len(history[r].new_data) :
                k \notin OwnFailures(r) =>
                   history[r].new_data[k] \in history[r].after
          /\ history[r].added_tail = history[r].new_tail

\* C21: no two rows of the users table carry the same email, and a finished
\* request whose email is carried by a row it did not add itself was
\* answered with 400.
C21_EmailUniqueAndRejected ==
    /\ \A i, j \in 1..Len(users) : users[i] = users[j] => i = j
    /\ \A r \in DOMAIN registrations :
          (/\ registrations[r].pc = "done"
           /\ ~registrations[r].added
           /\ ExistingUser(users, registrations[r].email)) =>
             registrations[r].status = 400

\* C22: GET /stats answers every state of the stations table with its four
\* statistics and never fails.
C22_StatsNeverFail ==
    stats # None =>
       /\ Val(stats).status = 200
       /\ DOMAIN Val(stats).body =
             {"total_stations", "stations_with_coordinates",
              "countries_covered", "average_power_kw"}

\* The rows of a table, with neighbouring runs of file rows joined.
RECURSIVE Joined(_)
Joined(segments) ==
    IF segments = << >> THEN << >>
    ELSE LET rest == Joined(Tail(segments))
             first == Head(segments)
         IN  IF first.to < first.from THEN rest
             ELSE IF /\ rest # << >>
                     /\ first.kind = "csv"
                     /\ rest[1].kind = "csv"
                     /\ rest[1].from = first.to + 1
             THEN <<Segment("csv", first.from, rest[1].to)>> \o Tail(rest)
             ELSE <<first>> \o rest

\* C23: after a run of ingest_csv that ended without error the table holds
\* the rows of the file, all of them, once, in file order, and nothing else.
C23_TableIsTheFile ==
    (ingest # << >> /\ ingest.status = "done") =>
       Joined(Val(target)) =
          IF Val(csvRows) = 0 THEN << >>
          ELSE <<Segment("csv", 1, Val(csvRows))>>

====
